---------------------------- MODULE Spec2Model ----------------------------
(***************************************************************************)
(* A state-machine model of the ShaderEffects engine of                    *)
(* src/shader-effects.js: the render loop (start/stop/animate/render), the *)
(* particle field (addParticle/renderParticles/startParticles), the effect *)
(* pulses (addDistortion/addGlitch/triggerBurst/triggerTransition) and the *)
(* host it runs on (the clock, setTimeout timers, requestAnimationFrame).  *)
(*                                                                         *)
(* Numbers.  Settings and normalised values are fixed-point hundredths     *)
(* (1.0 is One = 100).  Clock values and delays are milliseconds.          *)
(* Positions, velocities and sizes are thousandths of a pixel, a           *)
(* particle's life is in ten-thousandths.                                  *)
(***************************************************************************)
EXTENDS Integers, Sequences, FiniteSets, TLC

VARIABLES
    settings,        \* this.settings: enabled, intensity, aberration, flicker, particleDensity
    canvas,          \* this.canvas: [present, width, height], present FALSE for null
    particleCanvas,  \* this.particleCanvas, likewise
    gl,              \* this.gl: "null" or "ctx"
    particleGl,      \* this.particleGl: "null" or "ctx2d"
    program,         \* this.program: "null" or "prog"
    uniforms,        \* this.uniforms: TRUE when the uniform locations are set
    particles,       \* this.particles
    time,            \* this.time, in milliseconds
    isAnimating,     \* this.isAnimating
    rafId,           \* this.rafId: 0 (null) or the id of the last requested frame
    lastTime,        \* this.lastTime
    initCalled,      \* whether init() has run
    gpu,             \* GPU side: the program's uniform values and whether it is deleted
    now,             \* host clock, performance.now()
    timers,          \* host: pending setTimeout callbacks, in registration order
    rafQueue,        \* host: ids of the pending requestAnimationFrame callbacks
    nextRafId,       \* host: the id the next requestAnimationFrame returns
    transitions,     \* one record per triggerTransition call: when, enabled, callback count
    disposed,        \* whether dispose() has been called
    updates,         \* how many updateSettings calls have been made
    lastOp,          \* the operation the last step performed
    glCalls,         \* the WebGL calls the last step issued
    ctxCalls         \* the 2D-canvas calls the last step issued

vars == <<settings, canvas, particleCanvas, gl, particleGl, program, uniforms,
          particles, time, isAnimating, rafId, lastTime, initCalled, gpu, now,
          timers, rafQueue, nextRafId, transitions, disposed, updates, lastOp,
          glCalls, ctxCalls>>

-----------------------------------------------------------------------------
(* Program constants *)

One == 100                \* 1.0 in hundredths
ParticleCap == 1000       \* addParticle: this.particles.length > 1000
DefaultIntensity == 100   \* constructor: intensity 1.0
DefaultAberration == 50   \* constructor: aberration 0.5
DefaultFlicker == 30      \* constructor: flicker 0.3
DefaultDensity == 70      \* constructor: particleDensity 0.7
GlitchAmountDefault == 20     \* glitchData.amount || 0.2
GlitchFlickerBoost == 30      \* originalFlicker + 0.3
GlitchDurationDefault == 200  \* glitchData.duration || 200
DistortionDefault == 50           \* distortionData.intensity || 0.5
DistortionDurationDefault == 500  \* distortionData.duration || 500
BurstFactor == 50             \* Math.floor(50 * particleDensity)
BurstDistortion == 80         \* triggerBurst: intensity 0.8
BurstDistortionMs == 300      \* triggerBurst: duration 300
TransitionIntensity == 200    \* triggerTransition: intensity = 2.0
TransitionGlitchAmount == 50  \* triggerTransition: amount 0.5
TransitionMs == 1000          \* triggerTransition: glitch duration and final timer
TransitionBursts == 200       \* triggerTransition: for (i < 200)
BurstStaggerMs == 10          \* triggerTransition: i * 10
DisabledCallbackMs == 500     \* triggerTransition: setTimeout(callback, 500)
AmbientFactor == 100          \* startParticles: 100 * particleDensity
AmbientMs == 100              \* startParticles: setTimeout(..., 100)
LifeDecay == 100              \* renderParticles: life -= 0.01
LifeOne == 10000              \* life 1.0
SizeFloor == 100              \* renderParticles: size < 0.1
SizeDefault == 5000           \* addParticle: size || 5
HalfDefault == 50             \* addParticle: x || 0.5

(* Bounds of the model *)

LoopHorizon == 200        \* the clock of the life-cycle specification stops here (ms)
PulseHorizon == 400       \* the clock of the pulse specification stops here (ms)
CapHorizon == 300         \* the clock of the cap specification stops here (ms)
TransitionHorizon == 1100 \* the clock of the transition specification stops here (ms)
TransitionCallBy == 10    \* triggerTransition is called no later than this (ms)
UpdateEvery == 500        \* during transitions the user updates settings at multiples of this (ms)
LoopChunk == 40           \* indices of the particle loop evaluated per nesting level
MaxUpdates == 1           \* updateSettings calls
MaxTimers == 2            \* pending timers an operation may add to
MaxTransitions == 2       \* triggerTransition calls
MaxFrames == 2            \* frame callbacks run
InnerWidth == 800         \* window.innerWidth of the host
InnerHeight == 600        \* window.innerHeight of the host
MaxParticles == 1         \* population up to which outside calls add particles
SparseDensity == 4        \* particleDensity (hundredths) of the sparse field
ClockStep == 100          \* how far the clock moves when no timer is due sooner (ms)
FieldSize == 3            \* particles the field specification adds up to
BurstRoom == 1000         \* population up to which the burst specification calls triggerBurst
PulseCallBy == 100        \* pulses are triggered no later than this (ms)
UniformHorizon == 400     \* the clock of the uniform specification stops here (ms)
PointerX == 200           \* x of the pointer events (pixels)
PointerY == 150           \* y of the pointer events (pixels)

-----------------------------------------------------------------------------
(* Helpers *)

Min(a, b) == IF a < b THEN a ELSE b

\* JavaScript `v || d` on a number: 0 (like undefined) is falsy.
OrDefault(v, d) == IF v = 0 THEN d ELSE v

\* { ...a, ...b }: every key of either, b's value where b has the key.
Spread(a, b) ==
    [k \in (DOMAIN a) \cup (DOMAIN b) |-> IF k \in DOMAIN b THEN b[k] ELSE a[k]]

\* The value that stands for null / undefined in a field.
Null == "null"

\* A setTimeout callback waiting in the host: what it will do (kind), when it
\* is due, and what its closure captured (a, b, id).
Timer(kind, delay, a, b, id) ==
    [kind |-> kind, due |-> now + delay, a |-> a, b |-> b, id |-> id]

\* Mutant: render() draws before it clears and uploads.
RenderGlCallsDrawFirst ==
    <<"drawArrays", "clear", "uniform1f:time", "uniform1f:aberration",
      "uniform1f:flicker", "uniform1f:intensity", "uniform2f:mouse",
      "uniform1f:distortion">>

\* The WebGL calls of one render(): clear, six uniform uploads, one draw.
RenderGlCalls ==
    <<"clear", "uniform1f:time", "uniform1f:aberration", "uniform1f:flicker",
      "uniform1f:intensity", "uniform2f:mouse", "uniform1f:distortion",
      "drawArrays">>

\* The calls that put pixels on the WebGL canvas.
IsDraw(call) == call \in {"clear", "drawArrays"}

-----------------------------------------------------------------------------
(***************************************************************************)
(* Trigonometry in thousandths, for the burst directions.  Angles are in   *)
(* tenths of a degree; the sine is Bhaskara's rational approximation        *)
(* 4a(1800 - a) / (4050000 - a(1800 - a)) for 0 <= a <= 1800.               *)
(***************************************************************************)

SinHalfTurn(a) ==
    (2000 * a * (1800 - a)) \div ((4050000 - a * (1800 - a)) \div 2)

SinMilli(a) ==
    LET v == a % 3600
    IN  IF v <= 1800 THEN SinHalfTurn(v) ELSE 0 - SinHalfTurn(v - 1800)

CosMilli(a) == SinMilli(a + 900)

\* Mutant: the directions cover half the circle.
BurstAngleHalf(i, count) == (1800 * i) \div count

\* (i / count) * Math.PI * 2, in tenths of a degree
BurstAngle(i, count) == (3600 * i) \div count

-----------------------------------------------------------------------------
(* The particle field *)

\* addParticle(particleData): the particle built from the data, pushed unless
\* effects are disabled or the population is above the cap.
AddParticleTo(ps, st, pc, data) ==
    IF ~st.enabled \/ Len(ps) > ParticleCap THEN ps
    ELSE Append(ps,
           [x     |-> (OrDefault(data.x, HalfDefault) * pc.width * 1000) \div One,
            y     |-> (OrDefault(data.y, HalfDefault) * pc.height * 1000) \div One,
            vx    |-> data.vx,
            vy    |-> data.vy,
            size  |-> OrDefault(data.size, SizeDefault),
            color |-> data.color,
            life  |-> OrDefault(data.life, LifeOne)])

\* One pass of the particle loop body of renderParticles on particle p.
AgeParticle(p) ==
    [p EXCEPT !.x = p.x + p.vx, !.y = p.y + p.vy,
              !.life = p.life - LifeDecay,
              !.size = (p.size * 99) \div 100]

IsDead(p) == p.life <= 0 \/ p.size < SizeFloor

\* The disc painted for a live particle: arc(x, y, size) filled with alpha
\* life * 0.7 (alpha in ten-thousandths).
Disc(p) ==
    [op |-> "arc", x |-> p.x, y |-> p.y, size |-> p.size,
     alpha |-> (p.life * 7) \div 10]

FillRect == [op |-> "fillRect", x |-> 0, y |-> 0, size |-> 0, alpha |-> 1000]

\* Mutant: after a removal the loop steps over the neighbour of the removed
\* particle.
RECURSIVE ParticleLoopSkipping(_, _, _, _)
ParticleLoopSkipping(ps, i, stop, calls) ==
    IF i <= stop THEN [ps |-> ps, calls |-> calls]
    ELSE LET p == AgeParticle(ps[i])
         IN  IF IsDead(p)
             THEN ParticleLoopSkipping(
                      SubSeq(ps, 1, i - 1) \o SubSeq(ps, i + 1, Len(ps)),
                      i - 2, stop, calls)
             ELSE ParticleLoopSkipping([ps EXCEPT ![i] = p], i - 1, stop,
                                       Append(calls, Disc(p)))

\* for (i = length - 1; i >= 0; i--): age particle i, splice it out when dead,
\* paint it otherwise.  i is the 1-based index of the next particle, the
\* loop goes on while i > stop; the result is the particle array, the 2D
\* calls issued and the index reached.
RECURSIVE ParticleLoop(_, _, _, _)
ParticleLoop(ps, i, stop, calls) ==
    IF i <= stop THEN [ps |-> ps, calls |-> calls]
    ELSE LET p == AgeParticle(ps[i])
         IN  IF IsDead(p)
             THEN ParticleLoop(SubSeq(ps, 1, i - 1) \o SubSeq(ps, i + 1, Len(ps)),
                               i - 1, stop, calls)
             ELSE ParticleLoop([ps EXCEPT ![i] = p], i - 1, stop,
                               Append(calls, Disc(p)))

\* The same loop from index i down to 1, evaluated LoopChunk indices at a
\* time so that a full field does not nest a thousand evaluations.
RECURSIVE ParticleSweep(_, _, _)
ParticleSweep(ps, i, calls) ==
    IF i < 1 THEN [ps |-> ps, calls |-> calls]
    ELSE LET stop == IF i > LoopChunk THEN i - LoopChunk ELSE 0
             part == ParticleLoop(ps, i, stop, calls)
         IN  ParticleSweep(part.ps, stop, part.calls)

\* Mutant: renderParticles() does not look at settings.enabled.
RenderParticlesWhileDisabled(ps, st, pgl) ==
    IF pgl = Null THEN [ps |-> ps, calls |-> <<>>]
    ELSE ParticleSweep(ps, Len(ps), <<FillRect>>)

\* renderParticles()
RenderParticles(ps, st, pgl) ==
    IF pgl = Null \/ ~st.enabled THEN [ps |-> ps, calls |-> <<>>]
    ELSE ParticleSweep(ps, Len(ps), <<FillRect>>)

\* The burst loop of triggerBurst: particle i of count leaves at angle
\* (i / count) * 2 pi with speed 2 + random * 5 and size random * 8 + 2.
\* rnd is the sequence of Math.random() results (hundredths) it consumes.
\* A push that addParticle refused leaves the array as it was.
RECURSIVE BurstLoop(_, _, _, _, _, _, _)
BurstLoop(ps, st, pc, data, rnd, i, count) ==
    IF i >= count THEN ps
    ELSE LET r1 == rnd[(i % Len(rnd)) + 1]
             r2 == rnd[((i + 1) % Len(rnd)) + 1]
             speed == 2000 + r1 * 50
             particle ==
               [x |-> data.x, y |-> data.y,
                vx |-> (CosMilli(BurstAngle(i, count)) * speed) \div 1000,
                vy |-> (SinMilli(BurstAngle(i, count)) * speed) \div 1000,
                size |-> r2 * 80 + 2000,
                color |-> data.color,
                life |-> LifeOne]
             pushed == AddParticleTo(ps, st, pc, particle)
         IN  IF Len(pushed) = Len(ps)
             THEN BurstLoop(ps, st, pc, data, rnd, i + 1, count)
             ELSE BurstLoop(pushed, st, pc, data, rnd, i + 1, count)

\* Mutant: the burst ignores the particle density.
BurstCountFull(st) == BurstFactor

\* Math.floor(50 * particleDensity)
BurstCount(st) == (BurstFactor * st.particleDensity) \div One

-----------------------------------------------------------------------------
(***************************************************************************)
(* A particle's life as the IEEE 754 double the code computes with.  The   *)
(* field above counts life in exact ten-thousandths, which is what the     *)
(* population and the order of removals need; how many ticks one particle  *)
(* lasts depends on the rounding of `life -= 0.01`, so here a life is the  *)
(* double itself: a whole number of units of 2^-59 (every double in        *)
(* [2^-7, 1] and every difference of two of them is one), written as three *)
(* limbs <<high, middle, low>> in base 2^20.                               *)
(***************************************************************************)

RECURSIVE Pow2(_)
Pow2(n) == IF n = 0 THEN 1 ELSE 2 * Pow2(n - 1)

LimbBase == Pow2(20)

\* The double 0.01 = 0x1.47ae147ae147bp-7 = 5764607523034235 * 2^-59
Cent == <<5242, 922746, 922747>>

\* a <= b
LimbLeq(a, b) ==
    \/ a[1] < b[1]
    \/ a[1] = b[1] /\ a[2] < b[2]
    \/ a[1] = b[1] /\ a[2] = b[2] /\ a[3] <= b[3]

\* a - b for a >= b, exactly
LimbSub(a, b) ==
    LET low == a[3] - b[3]
        borrow1 == IF low < 0 THEN 1 ELSE 0
        mid == a[2] - b[2] - borrow1
        borrow2 == IF mid < 0 THEN 1 ELSE 0
    IN  <<a[1] - b[1] - borrow2,
          IF mid < 0 THEN mid + LimbBase ELSE mid,
          IF low < 0 THEN low + LimbBase ELSE low>>

RECURSIVE BitLen(_)
BitLen(h) == IF h = 0 THEN 0 ELSE 1 + BitLen(h \div 2)

\* The double nearest to a (ties to even): a value of more than 53 bits
\* loses its lowest bits.  The high limb holds the bits from 2^40 up.
RoundDouble(a) ==
    IF a[1] < Pow2(13) THEN a
    ELSE LET q == Pow2(BitLen(a[1]) - 13)
             rem == a[3] % q
             up == \/ rem * 2 > q
                   \/ rem * 2 = q /\ (a[3] \div q) % 2 = 1
             low == (a[3] - rem) + (IF up THEN q ELSE 0)
             mid == IF low = LimbBase THEN a[2] + 1 ELSE a[2]
         IN  <<IF mid = LimbBase THEN a[1] + 1 ELSE a[1],
               IF mid = LimbBase THEN 0 ELSE mid,
               IF low = LimbBase THEN 0 ELSE low>>

\* particle.life -= 0.01 followed by the test particle.life <= 0: the
\* difference is at most 0 exactly when life <= 0.01.
LifeExpires(life) == LimbLeq(life, Cent)

\* particle.life -= 0.01 on a life above 0.01
DecayLife(life) == RoundDouble(LimbSub(life, Cent))

\* One pass of the loop body of renderParticles on a particle whose life is
\* a double; age counts the ticks the particle has been through.
AgeParticleDouble(p) ==
    [p EXCEPT !.life = IF LifeExpires(p.life) THEN <<0, 0, 0>> ELSE DecayLife(p.life),
              !.size = (p.size * 99) \div 100,
              !.age = p.age + 1]

\* particle.life <= 0 || particle.size < 0.1; an expired life is kept as 0.
IsDeadDouble(p) == p.life = <<0, 0, 0>> \/ p.size < SizeFloor

SurvivesDouble(p) == ~IsDeadDouble(p)

-----------------------------------------------------------------------------
(* Construction *)

\* constructor(options): the defaults with options.settings spread over them,
\* the two canvases as given, everything else empty.  The host clock starts
\* at 0 with nothing pending.
Constructed(optSettings, cv, pcv) ==
    /\ settings = Spread([enabled |-> TRUE, intensity |-> DefaultIntensity,
                          aberration |-> DefaultAberration,
                          flicker |-> DefaultFlicker,
                          particleDensity |-> DefaultDensity], optSettings)
    /\ canvas = cv
    /\ particleCanvas = pcv
    /\ gl = Null
    /\ particleGl = Null
    /\ program = Null
    /\ uniforms = FALSE
    /\ particles = <<>>
    /\ time = 0
    /\ isAnimating = FALSE
    /\ rafId = 0
    /\ lastTime = 0
    /\ initCalled = FALSE
    /\ gpu = [time |-> 0, aberration |-> 0, flicker |-> 0, intensity |-> 0,
              mouse |-> <<0, 0>>, distortion |-> 0, deleted |-> FALSE]
    /\ now = 0
    /\ timers = <<>>
    /\ rafQueue = {}
    /\ nextRafId = 1
    /\ transitions = <<>>
    /\ disposed = FALSE
    /\ updates = 0
    /\ lastOp = [name |-> "new", a |-> 0, b |-> 0]
    /\ glCalls = <<>>
    /\ ctxCalls = <<>>

\* What a step reports of itself: the operation and the calls it issued.
\* a and b are the arguments of the call, where a claim speaks of them.
DidWith(op, a, b, g, c) ==
    lastOp' = [name |-> op, a |-> a, b |-> b] /\ glCalls' = g /\ ctxCalls' = c

Did(op, g, c) == DidWith(op, 0, 0, g, c)

\* A canvas element before init(): the HTML default size.
DefaultCanvas == [present |-> TRUE, width |-> 300, height |-> 150]

\* A canvas option that is null: getElementById found no element.
NoCanvas == [present |-> FALSE, width |-> 0, height |-> 0]

\* resizeCanvases() at device pixel ratio dpr
Resized(cv, dpr) ==
    IF ~cv.present THEN cv
    ELSE [present |-> TRUE, width |-> InnerWidth * dpr, height |-> InnerHeight * dpr]

\* Mutant: the catch block of init() leaves the settings as they are.
InitFailureKeepsEnabled(st) == st

\* The settings after the catch block of init(): this.settings.enabled = false
InitFailure(st) == [st EXCEPT !.enabled = FALSE]

\* init(): outcome is what the host offers: "ok", "noWebGL", "no2D" or
\* "shaderError"; a missing canvas fails whatever the host offers.
InitEngine(outcome) ==
    /\ ~initCalled
    /\ initCalled' = TRUE
    /\ IF ~settings.enabled
       THEN UNCHANGED <<settings, canvas, particleCanvas, gl, particleGl,
                        program, uniforms>>
       ELSE IF ~canvas.present \/ ~particleCanvas.present
       THEN /\ settings' = InitFailure(settings)
            /\ UNCHANGED <<canvas, particleCanvas, gl, particleGl, program,
                           uniforms>>
       ELSE IF outcome = "noWebGL"
       THEN /\ settings' = InitFailure(settings)
            /\ UNCHANGED <<canvas, particleCanvas, gl, particleGl, program,
                           uniforms>>
       ELSE IF outcome = "no2D"
       THEN /\ settings' = InitFailure(settings)
            /\ gl' = "ctx"
            /\ UNCHANGED <<canvas, particleCanvas, particleGl, program,
                           uniforms>>
       ELSE IF outcome = "shaderError"
       THEN /\ settings' = InitFailure(settings)
            /\ gl' = "ctx"
            /\ particleGl' = "ctx2d"
            /\ canvas' = Resized(canvas, 1)
            /\ particleCanvas' = Resized(particleCanvas, 1)
            /\ UNCHANGED <<program, uniforms>>
       ELSE /\ gl' = "ctx"
            /\ particleGl' = "ctx2d"
            /\ canvas' = Resized(canvas, 1)
            /\ particleCanvas' = Resized(particleCanvas, 1)
            /\ program' = "prog"
            /\ uniforms' = TRUE
            /\ UNCHANGED settings
    /\ Did("init", <<>>, <<>>)
    /\ UNCHANGED <<particles, time, isAnimating, rafId, lastTime, gpu, now,
                   timers, rafQueue, nextRafId, transitions, disposed, updates>>

-----------------------------------------------------------------------------
(* The render loop *)

\* render(): the uniform values uploaded and the calls issued, or nothing
\* when gl or the program is missing.  t is this.time at the call.
RenderGpu(t) ==
    IF gl = Null \/ program = Null THEN gpu
    ELSE [gpu EXCEPT !.time = t, !.aberration = settings.aberration,
                     !.flicker = settings.flicker,
                     !.intensity = settings.intensity,
                     !.mouse = <<50, 50>>, !.distortion = 0]

RenderCalls == IF gl = Null \/ program = Null THEN <<>> ELSE RenderGlCalls

\* Mutant: the particle step does not wait for the WebGL context and program.
RenderedParticlesAlways == RenderParticles(particles, settings, particleGl)

\* The particle part of render(): renderParticles() runs only after the draw.
RenderedParticles ==
    IF gl = Null \/ program = Null THEN [ps |-> particles, calls |-> <<>>]
    ELSE RenderParticles(particles, settings, particleGl)

\* Mutant: a long stall counts as one clock step.
ElapsedCapped(currentTime, last) == Min(currentTime - last, ClockStep)

\* deltaTime of animate: the time since the last tick, with no upper limit
\* (in ms; the code divides by 1000)
Elapsed(currentTime, last) == currentTime - last

\* The body of animate(currentTime) once it is known that isAnimating holds:
\* request the next frame, add the delta since `last` to this.time, render.
\* `ran` is the id of the frame callback being run (0 when start() calls it).
AnimateBody(currentTime, last, ran) ==
    /\ rafId' = nextRafId
    /\ rafQueue' = (rafQueue \ {ran}) \cup {nextRafId}
    /\ nextRafId' = nextRafId + 1
    /\ time' = time + Elapsed(currentTime, last)
    /\ lastTime' = currentTime
    /\ gpu' = RenderGpu(time + Elapsed(currentTime, last))
    /\ particles' = RenderedParticles.ps

\* Mutant: start() forgets to test isAnimating.
StartRunsAlways == settings.enabled

\* start(): whether it gets past `if (!this.settings.enabled || this.isAnimating) return`
StartRuns == settings.enabled /\ ~isAnimating

\* start()
Start ==
    /\ nextRafId <= MaxFrames
    /\ IF ~StartRuns
       THEN /\ UNCHANGED <<isAnimating, rafId, rafQueue, nextRafId, time,
                           lastTime, gpu, particles>>
            /\ Did("start", <<>>, <<>>)
       ELSE /\ isAnimating' = TRUE
            /\ AnimateBody(now, now, 0)
            /\ Did("start", RenderCalls, RenderedParticles.calls)
    /\ UNCHANGED <<settings, canvas, particleCanvas, gl, particleGl, program,
                   uniforms, initCalled, now, timers, transitions, disposed, updates>>

\* The host runs the pending frame callback id: animate(now).
Frame(id) ==
    /\ id \in rafQueue
    /\ nextRafId <= MaxFrames
    /\ IF ~isAnimating
       THEN /\ rafQueue' = rafQueue \ {id}
            /\ UNCHANGED <<rafId, nextRafId, time, lastTime, gpu, particles>>
            /\ Did("frame", <<>>, <<>>)
       ELSE /\ AnimateBody(now, lastTime, id)
            /\ Did("frame", RenderCalls, RenderedParticles.calls)
    /\ UNCHANGED <<settings, canvas, particleCanvas, gl, particleGl, program,
                   uniforms, isAnimating, initCalled, now, timers, transitions,
                   disposed, updates>>

\* Mutant: stop() drops the frame handle without cancelling it or clearing
\* the flag.
StopResultKeepsLoop(s) ==
    [isAnimating |-> s.isAnimating, rafId |-> 0, rafQueue |-> s.rafQueue]

\* Mutant: stop() cancels the frame but keeps its handle.
StopResultKeepsHandle(s) ==
    [isAnimating |-> FALSE,
     rafId |-> s.rafId,
     rafQueue |-> IF s.rafId # 0 THEN s.rafQueue \ {s.rafId} ELSE s.rafQueue]

\* Mutant: stop() clears the flag and the handle but does not cancel the
\* frame.
StopResultLeavesFrame(s) ==
    [isAnimating |-> FALSE, rafId |-> 0, rafQueue |-> s.rafQueue]

\* stop(): what it makes of isAnimating, rafId and the host's frame queue.
StopResult(s) ==
    [isAnimating |-> FALSE,
     rafId |-> 0,
     rafQueue |-> IF s.rafId # 0 THEN s.rafQueue \ {s.rafId} ELSE s.rafQueue]

LoopState == [isAnimating |-> isAnimating, rafId |-> rafId, rafQueue |-> rafQueue]

Stop ==
    /\ isAnimating' = StopResult(LoopState).isAnimating
    /\ rafId' = StopResult(LoopState).rafId
    /\ rafQueue' = StopResult(LoopState).rafQueue
    /\ Did("stop", <<>>, <<>>)
    /\ UNCHANGED <<settings, canvas, particleCanvas, gl, particleGl, program,
                   uniforms, particles, time, lastTime, initCalled, gpu, now,
                   timers, nextRafId, transitions, disposed, updates>>

\* render() called directly.  The step reports how many particles the tick
\* removed.
Render ==
    /\ gpu' = RenderGpu(time)
    /\ particles' = RenderedParticles.ps
    /\ DidWith("render", Len(particles) - Len(RenderedParticles.ps), 0,
               RenderCalls, RenderedParticles.calls)
    /\ UNCHANGED <<settings, canvas, particleCanvas, gl, particleGl, program,
                   uniforms, time, isAnimating, rafId, lastTime, initCalled,
                   now, timers, rafQueue, nextRafId, transitions, disposed, updates>>

\* dispose(): stop(), delete the program and the buffer, empty the particles.
\* this.gl, this.program and this.uniforms keep their values.
Dispose ==
    /\ isAnimating' = StopResult(LoopState).isAnimating
    /\ rafId' = StopResult(LoopState).rafId
    /\ rafQueue' = StopResult(LoopState).rafQueue
    /\ gpu' = IF gl # Null /\ program # Null
              THEN [gpu EXCEPT !.deleted = TRUE] ELSE gpu
    /\ particles' = <<>>
    /\ disposed' = TRUE
    /\ Did("dispose",
           IF gl # Null /\ program # Null
           THEN <<"deleteProgram", "deleteBuffer">> ELSE <<>>, <<>>)
    /\ UNCHANGED <<settings, canvas, particleCanvas, gl, particleGl, program,
                   uniforms, time, lastTime, initCalled, now, timers,
                   nextRafId, transitions, updates>>

-----------------------------------------------------------------------------
(* Effect pulses *)

Max(a, b) == IF a > b THEN a ELSE b

\* The settings addGlitch leaves when it runs: aberration raised by
\* (amount || 0.2), flicker by 0.3, each capped at 1.0.
Glitched(st, amount) ==
    [st EXCEPT
       !.aberration = Min(One, st.aberration + OrDefault(amount, GlitchAmountDefault)),
       !.flicker = Min(One, st.flicker + GlitchFlickerBoost)]

\* Mutant: the timer restores the constructor's defaults, not what the
\* settings held at the call.
GlitchTimerCapturesDefaults(st, duration) ==
    Timer("glitch", Max(0, OrDefault(duration, GlitchDurationDefault)),
          DefaultAberration, DefaultFlicker, 0)

\* The timer addGlitch registers: it restores the aberration and flicker
\* captured from st after (duration || 200) ms.
GlitchTimer(st, duration) ==
    Timer("glitch", Max(0, OrDefault(duration, GlitchDurationDefault)),
          st.aberration, st.flicker, 0)

\* addGlitch(glitchData)
AddGlitch(amount, duration) ==
    /\ Len(timers) < MaxTimers
    /\ IF ~settings.enabled
       THEN UNCHANGED <<settings, timers>>
       ELSE /\ settings' = Glitched(settings, amount)
            /\ timers' = Append(timers, GlitchTimer(settings, duration))
    /\ DidWith("addGlitch", amount, duration, <<>>, <<>>)
    /\ UNCHANGED <<canvas, particleCanvas, gl, particleGl, program, uniforms,
                   particles, time, isAnimating, rafId, lastTime, initCalled,
                   gpu, now, rafQueue, nextRafId, transitions, disposed, updates>>

\* Mutant: addDistortion does not look at settings.enabled.
DistortionRunsDisabled(st) == uniforms

\* Whether addDistortion gets past its guard under settings st.
DistortionRuns(st) == st.enabled /\ uniforms

\* The distortion uniform after addDistortion(intensity) ran.
Distorted(g, intensity) ==
    [g EXCEPT !.distortion = OrDefault(intensity, DistortionDefault)]

\* Mutant: the reset timer leaves the uniform as it is.
DistortionResetKept(g) == g

\* The distortion uniform after the reset timer of addDistortion ran.
DistortionReset(g) == [g EXCEPT !.distortion = 0]

DistortionTimer(duration) ==
    Timer("distortion", Max(0, OrDefault(duration, DistortionDurationDefault)),
          0, 0, 0)

\* addDistortion(distortionData)
AddDistortion(intensity, duration) ==
    /\ Len(timers) < MaxTimers
    /\ IF ~DistortionRuns(settings)
       THEN /\ UNCHANGED <<gpu, timers>>
            /\ Did("addDistortion", <<>>, <<>>)
       ELSE /\ gpu' = Distorted(gpu, intensity)
            /\ timers' = Append(timers, DistortionTimer(duration))
            /\ DidWith("addDistortion", intensity, duration,
                       <<"uniform1f:distortion">>, <<>>)
    /\ UNCHANGED <<settings, canvas, particleCanvas, gl, particleGl, program,
                   uniforms, particles, time, isAnimating, rafId, lastTime,
                   initCalled, now, rafQueue, nextRafId, transitions, disposed, updates>>

\* addParticle(particleData) called from outside.  With no particle canvas
\* the read of its width throws before anything changes.
AddParticle(data) ==
    /\ particles' = IF ~particleCanvas.present THEN particles
                    ELSE AddParticleTo(particles, settings, particleCanvas, data)
    /\ DidWith("addParticle", data.x, data.y, <<>>, <<>>)
    /\ UNCHANGED <<settings, canvas, particleCanvas, gl, particleGl, program,
                   uniforms, time, isAnimating, rafId, lastTime, initCalled,
                   gpu, now, timers, rafQueue, nextRafId, transitions,
                   disposed, updates>>

\* The particles after triggerBurst(burstData) under settings st.  rnd are
\* the Math.random() results it draws.
Burst(ps, st, data, rnd) ==
    IF ~st.enabled \/ ~particleCanvas.present THEN ps
    ELSE BurstLoop(ps, st, particleCanvas,
                   [x |-> OrDefault(data.x, HalfDefault),
                    y |-> OrDefault(data.y, HalfDefault),
                    color |-> data.color],
                   rnd, 0, BurstCount(st))

\* Whether triggerBurst reaches its addDistortion call and that call runs.
BurstDistorts(st) ==
    st.enabled /\ particleCanvas.present /\ DistortionRuns(st)

\* triggerBurst(burstData)
TriggerBurst(data, rnd) ==
    /\ Len(timers) < MaxTimers
    /\ particles' = Burst(particles, settings, data, rnd)
    /\ IF BurstDistorts(settings)
       THEN /\ gpu' = Distorted(gpu, BurstDistortion)
            /\ timers' = Append(timers, DistortionTimer(BurstDistortionMs))
            /\ Did("triggerBurst", <<"uniform1f:distortion">>, <<>>)
       ELSE /\ UNCHANGED <<gpu, timers>>
            /\ Did("triggerBurst", <<>>, <<>>)
    /\ UNCHANGED <<settings, canvas, particleCanvas, gl, particleGl, program,
                   uniforms, time, isAnimating, rafId, lastTime, initCalled,
                   now, rafQueue, nextRafId, transitions, disposed, updates>>

\* Mutant: the generator adds a particle at every check.
AmbientUnchecked(ps, st, r) ==
    AddParticleTo(ps, st, particleCanvas,
      [x |-> r, y |-> r, vx |-> (r - 50) * 5, vy |-> (r - 50) * 5,
       size |-> r * 30 + 1000,
       color |-> <<r \div 2 + 50, r, r \div 2 + 50>>,
       life |-> r * 50 + 5000])

\* createBackgroundParticles(): the particles after its check-and-add.
\* r is the Math.random() result it draws (hundredths).
Ambient(ps, st, r) ==
    IF Len(ps) * One < AmbientFactor * st.particleDensity /\ particleCanvas.present
    THEN AddParticleTo(ps, st, particleCanvas,
           [x |-> r, y |-> r, vx |-> (r - 50) * 5, vy |-> (r - 50) * 5,
            size |-> r * 30 + 1000,
            color |-> <<r \div 2 + 50, r, r \div 2 + 50>>,
            life |-> r * 50 + 5000])
    ELSE ps

\* Whether createBackgroundParticles() is cut short: its addParticle call
\* gets past the guard and reads the width of a particle canvas that is null.
AmbientThrows(ps, st) ==
    /\ Len(ps) * One < AmbientFactor * st.particleDensity
    /\ st.enabled /\ Len(ps) <= ParticleCap
    /\ ~particleCanvas.present

\* The timers after createBackgroundParticles(): it re-arms itself only
\* while the loop is animating, and only when it ran to its end.
AmbientRearm(ts) ==
    IF isAnimating /\ ~AmbientThrows(particles, settings)
    THEN Append(ts, Timer("ambient", AmbientMs, 0, 0, 0)) ELSE ts

\* startParticles()
StartParticles(r) ==
    /\ Len(timers) < MaxTimers
    /\ IF ~settings.enabled
       THEN UNCHANGED <<particles, timers>>
       ELSE /\ particles' = Ambient(particles, settings, r)
            /\ timers' = AmbientRearm(timers)
    /\ Did("startParticles", <<>>, <<>>)
    /\ UNCHANGED <<settings, canvas, particleCanvas, gl, particleGl, program,
                   uniforms, time, isAnimating, rafId, lastTime, initCalled,
                   gpu, now, rafQueue, nextRafId, transitions, disposed, updates>>

\* Mutant: the disabled path waits as long as the enabled one.
CallbackTimerLate(id) == Timer("callback", TransitionMs, 0, 0, id)

\* The timer of a transition called while effects are disabled.
CallbackTimer(id) == Timer("callback", DisabledCallbackMs, 0, 0, id)

\* Mutant: the final timer comes after half the time.
TransitionTimerEarly(st, id) ==
    Timer("transition", TransitionMs \div 2, st.intensity, 0, id)

\* The final timer of an enabled transition; st are the settings at the call.
TransitionTimer(st, id) == Timer("transition", TransitionMs, st.intensity, 0, id)

\* triggerTransition(callback).  The callback is identified by the index of
\* the call in `transitions`.  The 200 burst timers, due 10 ms apart and
\* registered one after the other, are kept as one "burst" entry whose a is
\* the index of the next one to fire.
TriggerTransition ==
    /\ Len(transitions) < MaxTransitions
    /\ LET id == Len(transitions) + 1 IN
       /\ transitions' = Append(transitions,
             [at |-> now, enabled |-> settings.enabled, calls |-> 0,
              doneAt |-> 0, intensity |-> settings.intensity])
       /\ IF ~settings.enabled
          THEN /\ timers' = Append(timers, CallbackTimer(id))
               /\ UNCHANGED settings
          ELSE /\ settings' = Glitched([settings EXCEPT
                                          !.intensity = TransitionIntensity],
                                       TransitionGlitchAmount)
               /\ timers' = timers \o
                    <<GlitchTimer(settings, TransitionMs),
                      Timer("burst", 0, 0, 0, id),
                      TransitionTimer(settings, id)>>
    /\ Did("triggerTransition", <<>>, <<>>)
    /\ UNCHANGED <<canvas, particleCanvas, gl, particleGl, program, uniforms,
                   particles, time, isAnimating, rafId, lastTime, initCalled,
                   gpu, now, rafQueue, nextRafId, disposed, updates>>

\* The value newSettings gives key k, or -1 when it has no such key.
Written(newSettings, k) ==
    IF k \in DOMAIN newSettings THEN newSettings[k] ELSE 0 - 1

\* updateSettings(newSettings)
UpdateSettings(newSettings) ==
    /\ updates < MaxUpdates
    /\ updates' = updates + 1
    /\ settings' = Spread(settings, newSettings)
    /\ DidWith("updateSettings", Written(newSettings, "aberration"),
               Written(newSettings, "flicker"), <<>>, <<>>)
    /\ UNCHANGED <<canvas, particleCanvas, gl, particleGl, program, uniforms,
                   particles, time, isAnimating, rafId, lastTime, initCalled,
                   gpu, now, timers, rafQueue, nextRafId, transitions,
                   disposed>>

\* The pointer uniform updateMousePosition(x, y) uploads: x / width and
\* 1 - y / height of the WebGL canvas, in hundredths.
Pointer(cv, x, y) ==
    <<(x * One) \div cv.width, One - ((y * One) \div cv.height)>>

\* updateMousePosition(x, y)
UpdateMousePosition(x, y) ==
    /\ IF ~uniforms
       THEN /\ UNCHANGED gpu
            /\ DidWith("updateMousePosition", x, y, <<>>, <<>>)
       ELSE /\ gpu' = [gpu EXCEPT !.mouse = Pointer(canvas, x, y)]
            /\ DidWith("updateMousePosition", x, y, <<"uniform2f:mouse">>, <<>>)
    /\ UNCHANGED <<settings, canvas, particleCanvas, gl, particleGl, program,
                   uniforms, particles, time, isAnimating, rafId, lastTime,
                   initCalled, now, timers, rafQueue, nextRafId, transitions,
                   disposed, updates>>

\* addParticle({life: L}) for a life given as a double; born is L in
\* hundredths.
AddParticleDouble(d) ==
    /\ particles' =
         IF ~settings.enabled \/ Len(particles) > ParticleCap THEN particles
         ELSE Append(particles,
                     [life |-> d.life, size |-> SizeDefault,
                      born |-> d.born, age |-> 0])
    /\ DidWith("addParticle", d.born, 0, <<>>, <<>>)
    /\ UNCHANGED <<settings, canvas, particleCanvas, gl, particleGl, program,
                   uniforms, time, isAnimating, rafId, lastTime, initCalled,
                   gpu, now, timers, rafQueue, nextRafId, transitions,
                   disposed, updates>>

\* renderParticles() on a field whose lives are doubles: every particle is
\* aged once and the dead ones are removed.
RenderParticlesDouble ==
    /\ particles' =
         IF particleGl = Null \/ ~settings.enabled THEN particles
         ELSE SelectSeq([i \in 1..Len(particles) |->
                            AgeParticleDouble(particles[i])],
                        SurvivesDouble)
    /\ Did("renderParticles", <<>>, <<>>)
    /\ UNCHANGED <<settings, canvas, particleCanvas, gl, particleGl, program,
                   uniforms, time, isAnimating, rafId, lastTime, initCalled,
                   gpu, now, timers, rafQueue, nextRafId, transitions,
                   disposed, updates>>

-----------------------------------------------------------------------------
(* The host: timers and the clock *)

\* The timer the host runs next: the earliest due, the first registered
\* among those due at the same time.
NextTimer ==
    CHOOSE k \in 1..Len(timers) :
        \A j \in 1..Len(timers) :
            \/ timers[k].due < timers[j].due
            \/ (timers[k].due = timers[j].due /\ k <= j)

Without(ts, k) == SubSeq(ts, 1, k - 1) \o SubSeq(ts, k + 1, Len(ts))

\* The callback passed to triggerTransition number id is invoked.
Called(id) ==
    [transitions EXCEPT ![id].calls = @ + 1, ![id].doneAt = now]

\* Mutant: the final timer gives up when effects were switched off meanwhile.
TransitionDoneIfEnabled(t) ==
    IF settings.enabled THEN Called(t.id) ELSE transitions

\* What the final timer of an enabled transition does to `transitions`:
\* if (callback) callback(), whatever the settings are by then.
TransitionDone(t) == Called(t.id)

\* Mutant: the glitch timer resets to the constructor's defaults.
GlitchRestoredToDefault(st, t) ==
    [st EXCEPT !.aberration = DefaultAberration, !.flicker = DefaultFlicker]

\* The settings a glitch timer leaves: the captured aberration and flicker.
GlitchRestored(st, t) == [st EXCEPT !.aberration = t.a, !.flicker = t.b]

\* The host runs the due timer.  r and rnd are the Math.random() results its
\* callback draws.
FireTimer(r, rnd) ==
    /\ timers # <<>>
    /\ LET k == NextTimer
           t == timers[k]
       IN
       /\ t.due <= now
       /\ CASE t.kind = "distortion" ->
                 \* addDistortion's reset: if (this.uniforms.distortion) uniform1f(.., 0.0)
                 /\ timers' = Without(timers, k)
                 /\ IF uniforms
                    THEN /\ gpu' = DistortionReset(gpu)
                         /\ Did("timer:distortion", <<"uniform1f:distortion">>, <<>>)
                    ELSE /\ UNCHANGED gpu
                         /\ Did("timer:distortion", <<>>, <<>>)
                 /\ UNCHANGED <<settings, particles, transitions>>
            [] t.kind = "glitch" ->
                 \* addGlitch's restore of the captured aberration and flicker
                 /\ timers' = Without(timers, k)
                 /\ settings' = GlitchRestored(settings, t)
                 /\ DidWith("timer:glitch", t.a, t.b, <<>>, <<>>)
                 /\ UNCHANGED <<gpu, particles, transitions>>
            [] t.kind = "burst" ->
                 \* burst t.a of a transition: triggerBurst at a random place
                 /\ particles' = Burst(particles, settings,
                                       [x |-> r, y |-> r, color |-> <<r, r, r>>],
                                       rnd)
                 /\ LET rest == IF t.a + 1 < TransitionBursts
                                THEN [timers EXCEPT ![k].a = t.a + 1,
                                                    ![k].due = t.due + BurstStaggerMs]
                                ELSE Without(timers, k)
                    IN IF BurstDistorts(settings)
                       THEN /\ timers' = Append(rest, DistortionTimer(BurstDistortionMs))
                            /\ gpu' = Distorted(gpu, BurstDistortion)
                            /\ Did("timer:burst", <<"uniform1f:distortion">>, <<>>)
                       ELSE /\ timers' = rest
                            /\ UNCHANGED gpu
                            /\ Did("timer:burst", <<>>, <<>>)
                 /\ UNCHANGED <<settings, transitions>>
            [] t.kind = "transition" ->
                 \* the final timer of an enabled transition
                 /\ timers' = Without(timers, k)
                 /\ settings' = [settings EXCEPT !.intensity = t.a]
                 /\ transitions' = TransitionDone(t)
                 /\ DidWith("timer:transition", t.id, 0, <<>>, <<>>)
                 /\ UNCHANGED <<gpu, particles>>
            [] t.kind = "callback" ->
                 \* the 500 ms timer of a disabled transition
                 /\ timers' = Without(timers, k)
                 /\ transitions' = Called(t.id)
                 /\ DidWith("timer:callback", t.id, 0, <<>>, <<>>)
                 /\ UNCHANGED <<settings, gpu, particles>>
            [] t.kind = "ambient" ->
                 \* createBackgroundParticles
                 /\ particles' = Ambient(particles, settings, r)
                 /\ timers' = AmbientRearm(Without(timers, k))
                 /\ Did("timer:ambient", <<>>, <<>>)
                 /\ UNCHANGED <<settings, gpu, transitions>>
    /\ UNCHANGED <<canvas, particleCanvas, gl, particleGl, program, uniforms,
                   time, isAnimating, rafId, lastTime, initCalled, now,
                   rafQueue, nextRafId, disposed, updates>>

\* The clock moves on to t.  A timer runs when it is due, so the clock never
\* passes a pending timer.
AdvanceTime(t) ==
    /\ t > now
    /\ \A k \in 1..Len(timers) : timers[k].due >= t
    /\ now' = t
    /\ Did("clock", <<>>, <<>>)
    /\ UNCHANGED <<settings, canvas, particleCanvas, gl, particleGl, program,
                   uniforms, particles, time, isAnimating, rafId, lastTime,
                   initCalled, gpu, timers, rafQueue, nextRafId, transitions,
                   disposed, updates>>

\* The instants the clock may move to: the next timer's due time, or one
\* step on.
ClockTargets ==
    {now + ClockStep} \cup {timers[k].due : k \in 1..Len(timers)}

-----------------------------------------------------------------------------
(* Inputs *)

InitOutcomes == {"ok", "noWebGL", "no2D", "shaderError"}
\* glitchData.amount: absent, as the page passes it, above 1 and negative
GlitchAmounts == {0, 30, 150, 0 - 80}
GlitchDurations == {0, 100, 300}
\* particleData of a particle that lives two ticks
ShortLived ==
    [x |-> 50, y |-> 50, vx |-> 1000, vy |-> 0, size |-> 0,
     color |-> <<100, 0, 50>>, life |-> 200]
\* particleData of a particle of size 0.101, below 0.1 after one tick
Tiny ==
    [x |-> 20, y |-> 50, vx |-> 0, vy |-> 1000, size |-> 101,
     color |-> <<100, 100, 100>>, life |-> LifeOne]
\* particleData of a particle that lives three ticks
Lasting ==
    [x |-> 80, y |-> 50, vx |-> 0 - 1000, vy |-> 0, size |-> 3000,
     color |-> <<0, 100, 50>>, life |-> 300]
\* particleData of a particle at the top left corner that lives two ticks
EdgeSpawn ==
    [x |-> 0, y |-> 0, vx |-> 1000, vy |-> 1000, size |-> 3000,
     color |-> <<100, 100, 100>>, life |-> 200]

-----------------------------------------------------------------------------
(* Spec: the life cycle and the render loop, with distortion pulses and a  *)
(* sparse particle field.                                                  *)

Init ==
    \E e \in BOOLEAN, cv \in {NoCanvas, DefaultCanvas} :
        Constructed([enabled |-> e, particleDensity |-> SparseDensity], cv, cv)

Next ==
    \/ \E o \in InitOutcomes : InitEngine(o)
    \/ Start
    \/ Stop
    \/ \E id \in rafQueue : Frame(id)
    \/ Render
    \/ Dispose
    \/ AddDistortion(90, 100)
    \/ \E e \in BOOLEAN : UpdateSettings([enabled |-> e])
    \/ /\ Len(particles) < MaxParticles
       /\ AddParticle(ShortLived)
    \/ FireTimer(40, <<40>>)
    \/ \E t \in ClockTargets : t <= LoopHorizon /\ AdvanceTime(t)

Spec == Init /\ [][Next]_vars

-----------------------------------------------------------------------------
(* SpecPulse: glitch pulses on an engine whose settings the user may also  *)
(* update.                                                                 *)

InitPulse ==
    \E e \in BOOLEAN :
        Constructed([enabled |-> e], DefaultCanvas, DefaultCanvas)

NextPulse ==
    \/ /\ now <= PulseCallBy
       /\ \E a \in GlitchAmounts, d \in GlitchDurations : AddGlitch(a, d)
    \/ \E e \in BOOLEAN : UpdateSettings([enabled |-> e])
    \/ UpdateSettings([aberration |-> 80, flicker |-> 10])
    \/ FireTimer(40, <<40>>)
    \/ \E t \in ClockTargets : t <= PulseHorizon /\ AdvanceTime(t)

SpecPulse == InitPulse /\ [][NextPulse]_vars

-----------------------------------------------------------------------------
(* SpecTransition: page transitions on an engine with a sparse particle    *)
(* field, whose effects the user may switch off and on meanwhile.          *)

TransitionIntensities == {50, 100}

InitTransition ==
    \E e \in BOOLEAN, v \in TransitionIntensities :
        Constructed([enabled |-> e, intensity |-> v,
                     particleDensity |-> SparseDensity],
                    DefaultCanvas, DefaultCanvas)

NextTransition ==
    \/ now = 0 /\ InitEngine("ok")
    \/ now <= TransitionCallBy /\ TriggerTransition
    \/ now % UpdateEvery = 0 /\ \E e \in BOOLEAN : UpdateSettings([enabled |-> e])
    \/ FireTimer(40, <<40>>)
    \/ \E t \in ClockTargets : t <= TransitionHorizon /\ AdvanceTime(t)

SpecTransition == InitTransition /\ [][NextTransition]_vars

-----------------------------------------------------------------------------
(* SpecCap: the particle field filling up.  The engine has the default     *)
(* particle density; particles come from page transitions, bursts, single  *)
(* particles and the ambient generator, and the render loop ages them.     *)
(* All of these are called at time 0; the engine may be disposed later.    *)

InitCap == Constructed([enabled |-> TRUE], DefaultCanvas, DefaultCanvas)

NextCap ==
    \/ now = 0 /\ InitEngine("ok")
    \/ now = 0 /\ transitions = <<>> /\ TriggerTransition
    \/ now = 0 /\ Start
    \/ now % ClockStep = 0 /\ \E id \in rafQueue : Frame(id)
    \/ now = 0 /\ Len(particles) < MaxParticles /\ AddParticle(ShortLived)
    \/ /\ now = 0 /\ Len(particles) < MaxParticles
       /\ TriggerBurst([x |-> 50, y |-> 50, color |-> <<100, 0, 50>>], <<40>>)
    \/ now = 0 /\ Len(particles) < MaxParticles /\ StartParticles(40)
    \/ now > 0 /\ ~disposed /\ Dispose
    \/ FireTimer(40, <<40>>)
    \/ \E t \in ClockTargets : t <= CapHorizon /\ AdvanceTime(t)

SpecCap == InitCap /\ [][NextCap]_vars

-----------------------------------------------------------------------------
(* SpecUniform: the shader uniforms under distortion pulses, bursts and    *)
(* pointer updates while the render loop draws frames.                     *)

PulseIntensities == {0, 90}
PulseDurations == {100, 300}

InitUniform ==
    Constructed([enabled |-> TRUE, particleDensity |-> SparseDensity],
                DefaultCanvas, DefaultCanvas)

NextUniform ==
    \/ now = 0 /\ InitEngine("ok")
    \/ Start
    \/ \E id \in rafQueue : Frame(id)
    \/ /\ now <= PulseCallBy
       /\ \E i \in PulseIntensities, d \in PulseDurations : AddDistortion(i, d)
    \/ /\ now <= PulseCallBy /\ uniforms /\ Len(particles) < MaxParticles
       /\ TriggerBurst([x |-> 50, y |-> 50, color |-> <<100, 0, 50>>], <<40>>)
    \/ UpdateMousePosition(PointerX, PointerY)
    \/ FireTimer(40, <<40>>)
    \/ \E t \in ClockTargets : t <= UniformHorizon /\ AdvanceTime(t)

SpecUniform == InitUniform /\ [][NextUniform]_vars

-----------------------------------------------------------------------------
(* SpecBurst: bursts at every particle density, on a field that fills up   *)
(* to its cap.  The user changes the density before the field has grown    *)
(* past one burst.                                                         *)

BurstDensities == {0, 50, 70, 100}

InitBurst ==
    \E e \in BOOLEAN, d \in BurstDensities :
        Constructed([enabled |-> e, particleDensity |-> d],
                    DefaultCanvas, DefaultCanvas)

NextBurst ==
    \/ now = 0 /\ InitEngine("ok")
    \/ /\ Len(particles) < BurstRoom
       /\ TriggerBurst([x |-> 50, y |-> 50, color |-> <<100, 0, 50>>], <<40, 70>>)
    \/ /\ Len(particles) <= BurstFactor
       /\ \E d \in BurstDensities : UpdateSettings([particleDensity |-> d])
    \/ /\ Len(particles) >= BurstRoom \/ ~settings.enabled
       /\ AddParticle(ShortLived)

SpecBurst == InitBurst /\ [][NextBurst]_vars

-----------------------------------------------------------------------------
(* SpecField: a small particle field whose particles die at different      *)
(* ticks, by life and by size, under render().                             *)

FieldParticles == {ShortLived, Tiny, Lasting, EdgeSpawn}

InitField == Constructed([enabled |-> TRUE], DefaultCanvas, DefaultCanvas)

NextField ==
    \/ now = 0 /\ InitEngine("ok")
    \/ /\ Len(particles) < FieldSize
       /\ \E d \in FieldParticles : AddParticle(d)
    \/ Render

SpecField == InitField /\ [][NextField]_vars

-----------------------------------------------------------------------------
(* SpecLife: single particles of a given life under renderParticles().     *)

\* The lives 0.01, 0.02, 0.05, 0.1, 0.2, 0.5 and 1.0 as doubles, with the
\* same lives in hundredths.
DoubleLives ==
    { [born |-> 1,   life |-> <<5242, 922746, 922747>>],
      [born |-> 2,   life |-> <<10485, 796917, 796918>>],
      [born |-> 5,   life |-> <<26214, 419430, 419432>>],
      [born |-> 10,  life |-> <<52428, 838860, 838864>>],
      [born |-> 20,  life |-> <<104857, 629145, 629152>>],
      [born |-> 50,  life |-> <<262144, 0, 0>>],
      [born |-> 100, life |-> <<524288, 0, 0>>] }

InitLife == Constructed([enabled |-> TRUE], DefaultCanvas, DefaultCanvas)

NextLife ==
    \/ now = 0 /\ InitEngine("ok")
    \/ particles = <<>> /\ \E d \in DoubleLives : AddParticleDouble(d)
    \/ particles # <<>> /\ RenderParticlesDouble

SpecLife == InitLife /\ [][NextLife]_vars

-----------------------------------------------------------------------------
(* Properties *)

\* The timers that will invoke the callback of transition i.
CallbackTimers(i) ==
    {k \in 1..Len(timers) :
        timers[k].id = i /\ timers[k].kind \in {"transition", "callback"}}

\* C4: the callback of every triggerTransition call is invoked exactly once,
\* 1000 ms after the call when effects were enabled at the call and 500 ms
\* after it when they were disabled: at any moment it either has been invoked
\* once, at that instant, or exactly one timer due at that instant is still
\* pending; it is never invoked twice and its timer is never lost.
C4_CallbackExactlyOnce ==
    \A i \in 1..Len(transitions) :
        LET tr == transitions[i]
            due == tr.at + (IF tr.enabled THEN 1000 ELSE 500)
        IN  /\ tr.calls <= 1
            /\ tr.calls = 1 => (tr.doneAt = due /\ CallbackTimers(i) = {})
            /\ tr.calls = 0 =>
                 /\ Cardinality(CallbackTimers(i)) = 1
                 /\ \A k \in CallbackTimers(i) : timers[k].due = due
                 /\ now <= due

\* Both kinds of transition have completed: one called enabled, one disabled.
C4_Witness ==
    \E i, j \in 1..Len(transitions) :
        /\ transitions[i].enabled /\ transitions[i].calls = 1
        /\ ~transitions[j].enabled /\ transitions[j].calls = 1

\* C5: a transition called while effects were enabled still invokes its
\* callback exactly once when effects are switched off before its 1000 ms
\* timer fires: whatever settings.enabled is, the invocations so far plus the
\* final timers still pending are exactly one.
C5_CallbackDespiteDisable ==
    \A i \in 1..Len(transitions) :
        transitions[i].enabled =>
            transitions[i].calls
              + Cardinality({k \in CallbackTimers(i) : timers[k].kind = "transition"})
              = 1

\* The final timer of an enabled transition has just fired with effects off.
C5_Witness ==
    /\ lastOp.name = "timer:transition"
    /\ ~settings.enabled
    /\ transitions[lastOp.a].enabled
    /\ transitions[lastOp.a].calls = 1

GlitchTimers == {k \in 1..Len(timers) : timers[k].kind = "glitch"}

\* C2: once every glitch pulse in flight has expired, and no updateSettings
\* call was made, aberration and flicker are back at the values they had
\* before the first pulse (the constructor's 0.5 and 0.3).
C2_PulsesRestoreBaseline ==
    (updates = 0 /\ GlitchTimers = {}) =>
        (settings.aberration = 50 /\ settings.flicker = 30)

\* C3: addGlitch(amount, duration) called while enabled with aberration b
\* leaves aberration at min(1.0, b + amount), for any amount; and when its
\* timer fires with no other glitch in flight, aberration is b again.
C3_GlitchRaisesByAmount ==
    [][/\ (lastOp'.name = "addGlitch" /\ settings.enabled) =>
            settings'.aberration = Min(100, settings.aberration + lastOp'.a)
       /\ (lastOp'.name = "timer:glitch" /\ Cardinality(GlitchTimers) = 1) =>
            settings'.aberration = timers[NextTimer].a
      ]_vars

NoDraw(calls) == \A i \in 1..Len(calls) : ~IsDraw(calls[i])

\* C6: stop() leaves the loop Stopped with no frame callback pending, and
\* while the loop is Stopped no step other than start() (or an explicit
\* render() call) draws on the WebGL canvas or paints particles.
C6_NoDrawAfterStop ==
    [][/\ lastOp'.name = "stop" => (~isAnimating' /\ rafQueue' = {})
       /\ (~isAnimating /\ lastOp'.name \notin {"start", "render"}) =>
            (NoDraw(glCalls') /\ ctxCalls' = <<>>)
      ]_vars

\* stop() has just run on an initialised engine that had been started and
\* holds particles.
C6_Witness ==
    /\ lastOp.name = "stop"
    /\ ~isAnimating
    /\ nextRafId > 1
    /\ program # Null
    /\ settings.enabled
    /\ particles # <<>>

\* C7: start() makes the loop Running only when effects are enabled; when
\* they are disabled the loop stays Stopped and no frame is requested; and
\* start() on a Running loop requests no second frame and leaves lastTime.
C7_StartGuard ==
    [][lastOp'.name = "start" =>
         /\ (settings.enabled /\ ~isAnimating) =>
               (isAnimating' /\ rafId' \notin rafQueue
                  /\ rafQueue' = rafQueue \cup {rafId'})
         /\ (~settings.enabled /\ ~isAnimating) =>
               (~isAnimating' /\ rafQueue' = rafQueue)
         /\ isAnimating =>
               (isAnimating' /\ rafQueue' = rafQueue /\ rafId' = rafId
                  /\ lastTime' = lastTime /\ time' = time)
      ]_vars

\* start() was called on a loop that had been Running for a while.
C7_Witness ==
    /\ lastOp.name = "start"
    /\ isAnimating
    /\ lastTime < now
    /\ Cardinality(rafQueue) = 1

\* C8: stop() applied twice gives what stop() applied once gives: the loop
\* Stopped, no frame handle, no frame callback pending; and a stop() step
\* changes nothing else of the engine.
C8_StopIdempotent ==
    /\ [](LET once == StopResult(LoopState)
              twice == StopResult(once)
          IN  /\ twice = once
              /\ ~once.isAnimating
              /\ once.rafId = 0
              /\ once.rafQueue = {})
    /\ [][lastOp'.name = "stop" =>
            UNCHANGED <<settings, canvas, particleCanvas, gl, particleGl,
                        program, uniforms, particles, time, lastTime, gpu,
                        timers, now>>]_vars

\* stop() has just run on a loop that had been started.
C8_Witness ==
    /\ lastOp.name = "stop"
    /\ nextRafId > 1
    /\ ~isAnimating
    /\ rafId = 0
    /\ rafQueue = {}

\* C9: after dispose(), a draw request (render() called directly, or the
\* ticks of a later start()) issues no WebGL call.
C9_NoDrawAfterDispose ==
    (disposed /\ lastOp.name \in {"render", "frame", "start"}) => glCalls = <<>>

\* C10: the reset timer of addDistortion, firing after dispose(), issues no
\* WebGL call.
C10_TimerIdleAfterDispose ==
    (disposed /\ lastOp.name = "timer:distortion") => glCalls = <<>>

\* C1: whatever the sequence of spawns and render ticks, the particle
\* population never exceeds the cap of 1000.
C1_PopulationWithinCap == Len(particles) <= 1000

-----------------------------------------------------------------------------
(* Properties of the shader uniforms *)

DistortionTimers == {k \in 1..Len(timers) : timers[k].kind = "distortion"}

\* A step of the render loop that drew a frame.
LoopDrew == lastOp.name \in {"frame", "start"} /\ glCalls # <<>>

\* C11: while a distortion pulse is in flight, a frame drawn by the render
\* loop is drawn with the distortion uniform at the pulse's (non-zero)
\* intensity, not at 0.
C11_FramesShowPulse ==
    (LoopDrew /\ DistortionTimers # {}) => gpu.distortion # 0

\* C12: the frame drawn after updateMousePosition(x, y) uses the pointer
\* uniform (x / width, 1 - y / height), not the centre.
C12_PointerKept ==
    [][(/\ lastOp.name = "updateMousePosition" /\ uniforms
        /\ lastOp'.name \in {"frame", "start", "render"} /\ glCalls' # <<>>) =>
          gpu'.mouse = <<(lastOp.a * 100) \div canvas.width,
                         100 - ((lastOp.b * 100) \div canvas.height)>>
      ]_vars

\* C13: addDistortion(intensity, duration) on an initialised, enabled engine
\* sets the distortion uniform to intensity at once and registers the reset
\* for duration ms later; the reset sets the uniform to 0; triggerBurst does
\* the same with intensity 0.8 and 300 ms.
C13_PulseSetsAndResets ==
    [][/\ (lastOp'.name = "addDistortion" /\ settings.enabled /\ uniforms) =>
            /\ gpu'.distortion = lastOp'.a
            /\ timers'[Len(timers')].kind = "distortion"
            /\ timers'[Len(timers')].due = now + lastOp'.b
       /\ (lastOp'.name = "triggerBurst" /\ settings.enabled /\ uniforms) =>
            /\ gpu'.distortion = 80
            /\ timers'[Len(timers')].kind = "distortion"
            /\ timers'[Len(timers')].due = now + 300
       /\ lastOp'.name = "timer:distortion" =>
            (gpu'.distortion = 0 /\ timers[NextTimer].due = now)
      ]_vars

\* C14: whenever no distortion pulse is in flight the distortion uniform is
\* 0, whatever the number and the overlap of the pulses before.
C14_IdleDistortionZero ==
    DistortionTimers = {} => gpu.distortion = 0

\* The last of the pulses in flight has just expired, 400 ms in: two pulses
\* overlapped, or a pulse followed another.
C14_Witness ==
    /\ lastOp.name = "timer:distortion"
    /\ glCalls # <<>>
    /\ DistortionTimers = {}
    /\ now = 400

-----------------------------------------------------------------------------
(* Properties of overlapping glitch pulses *)

\* The pulses in flight around the one whose timer is about to fire: those
\* triggered before it that outlast it.
OuterPulses ==
    {k \in GlitchTimers :
        k < NextTimer /\ timers[k].due > timers[NextTimer].due}

\* The timer of a pulse B fires while a pulse A triggered before it is still
\* in flight.
InnerPulseExpires ==
    /\ lastOp'.name = "timer:glitch"
    /\ timers[NextTimer].kind = "glitch"
    /\ OuterPulses # {}

\* C15 as stated: when the shorter pulse B expires inside the longer pulse A,
\* B's restoration puts aberration and flicker back to the values they had
\* before A was triggered.
C15_InnerPulseEndsOuter ==
    [][InnerPulseExpires =>
         \A k \in OuterPulses :
             /\ settings'.aberration = timers[k].a
             /\ settings'.flicker = timers[k].b
      ]_vars

\* C15, amended: when the shorter pulse B expires inside the longer pulse A,
\* B's restoration puts aberration and flicker back to the values they had
\* when B was triggered, which include A's elevation: where A raised the
\* constructor's flicker 0.3 and no update was made, flicker stays at A's
\* 0.6 or above.  A's timer stays pending with what it captured, and only
\* that timer brings the values before A back.
C15_InnerPulseKeepsOuter ==
    [][InnerPulseExpires =>
         /\ settings'.aberration = timers[NextTimer].a
         /\ settings'.flicker = timers[NextTimer].b
         /\ \A k \in OuterPulses :
               /\ \E j \in 1..Len(timers') : timers'[j] = timers[k]
               /\ (updates = 0 /\ timers[k].b = 30) => settings'.flicker >= 60
      ]_vars

\* Pulse B, triggered while A's raise was in effect, has just expired; A is
\* still in flight and its elevation is still there.
C15_Witness ==
    /\ lastOp.name = "timer:glitch"
    /\ updates = 0
    /\ \E k \in GlitchTimers :
          /\ timers[k].due > now
          /\ lastOp.b = timers[k].b + 30
          /\ settings.flicker = lastOp.b
          /\ settings.aberration > timers[k].a

\* C16: a glitch pulse captures aberration and flicker as they are at its
\* call; nothing changes what a pending pulse has captured; and when its
\* timer fires it sets aberration and flicker to exactly the captured values
\* and changes no other setting.
C16_RestoresCapture ==
    [][/\ (lastOp'.name = "addGlitch" /\ settings.enabled) =>
            /\ SubSeq(timers', 1, Len(timers)) = timers
            /\ Len(timers') = Len(timers) + 1
            /\ timers'[Len(timers')].a = settings.aberration
            /\ timers'[Len(timers')].b = settings.flicker
       /\ lastOp'.name # "addGlitch" =>
            \A k \in 1..Len(timers') :
                timers'[k].kind = "glitch" =>
                    \E j \in 1..Len(timers) : timers[j] = timers'[k]
       /\ lastOp'.name = "timer:glitch" =>
            settings' = [settings EXCEPT !.aberration = timers[NextTimer].a,
                                         !.flicker = timers[NextTimer].b]
      ]_vars

\* A pulse triggered at aberration 0.8 and flicker 0.1 (the values of an
\* update) has just expired and put them back, over the raise of a later
\* pulse that is still in flight.
C16_Witness ==
    /\ lastOp.name = "timer:glitch"
    /\ lastOp.a = 80 /\ lastOp.b = 10
    /\ settings.aberration = 80 /\ settings.flicker = 10
    /\ \E k \in GlitchTimers : timers[k].a > 80

-----------------------------------------------------------------------------
(* Properties of bursts and transitions *)

C18_IntensityDoubled ==
    (Len(transitions) = 1 /\ transitions[1].enabled) =>
        IF transitions[1].calls = 0
        THEN settings.intensity = 2 * transitions[1].intensity
        ELSE settings.intensity = transitions[1].intensity

-----------------------------------------------------------------------------
(* Properties of the particle tick *)

\* A particle that is past the death test: life above 0, size at least 0.1.
Alive(p) == p.life > 0 /\ p.size >= 100

\* Every particle of ps aged once, in place.
AgedOnce(ps) == [i \in 1..Len(ps) |-> AgeParticle(ps[i])]

\* C20: after a tick of renderParticles no particle left has life <= 0 or
\* size < 0.1; the field is exactly the particles of before, each aged once,
\* without the dead ones and in the same order (none skipped, none added);
\* and the discs drawn are those of the survivors, one each.
C20_TickRemovesDead ==
    [][(lastOp'.name = "render" /\ ctxCalls' # <<>>) =>
          /\ \A i \in 1..Len(particles') : Alive(particles'[i])
          /\ particles' = SelectSeq(AgedOnce(particles), Alive)
          /\ Len(ctxCalls') = 1 + Len(particles')
          /\ \A i \in 1..Len(particles') :
                ctxCalls'[Len(ctxCalls') + 1 - i] = Disc(particles'[i])
      ]_vars

\* A tick has just removed a particle and drawn the two it left.
C20_Witness ==
    /\ lastOp.name = "render"
    /\ lastOp.a >= 1
    /\ Len(particles) = 2
    /\ Len(ctxCalls) = 3

-----------------------------------------------------------------------------
(* Properties of a particle's lifetime *)

\* C19: a particle spawned with life L is removed within ceil(L / 0.01)
\* ticks: a particle still in the field has been through fewer ticks than
\* that (born is L / 0.01 for the lives checked).
C19_RemovedWithinCeil ==
    \A i \in 1..Len(particles) : particles[i].age < particles[i].born

-----------------------------------------------------------------------------
(* addParticle at the cap *)

\* C21: addParticle called when the population is at its cap of 1000, or
\* when effects are disabled, leaves the particle array as it was.
C21_SpawnAtCapDropped ==
    [][(/\ lastOp'.name = "addParticle"
        /\ (Len(particles) >= ParticleCap \/ ~settings.enabled))
          => particles' = particles]_vars

-----------------------------------------------------------------------------
(* The ambient generator *)

\* C22: while effects are enabled, every run of the ambient generator (the
\* startParticles call and each recheck after it) leaves a recheck
\* registered 100 ms later, whether or not the render loop is animating.
C22_GeneratorRearms ==
    (lastOp.name \in {"startParticles", "timer:ambient"} /\ settings.enabled)
        => \E k \in 1..Len(timers) :
              timers[k].kind = "ambient" /\ timers[k].due = now + AmbientMs

-----------------------------------------------------------------------------
(* SpecFailure: an engine constructed with effects enabled whose init()    *)
(* may fail, for a missing canvas or for what the host refuses.  init() is *)
(* the first call, as in initEffects; the page then starts the loop,       *)
(* triggers effects and applies settings, all before any timer is due.     *)

\* The settings object of the page, which applySettings passes whole.
AppSettings ==
    [audioEnabled |-> TRUE, effectsEnabled |-> TRUE, flickerIntensity |-> 30,
     aberrationAmount |-> 50, particleDensity |-> DefaultDensity,
     reduceMotion |-> FALSE]

SettingsUpdates ==
    {[enabled |-> TRUE], [enabled |-> FALSE], [intensity |-> 80], AppSettings}

InitFail ==
    \E cv \in {NoCanvas, DefaultCanvas}, pcv \in {NoCanvas, DefaultCanvas} :
        Constructed([enabled |-> TRUE, particleDensity |-> SparseDensity],
                    cv, pcv)

NextFailure ==
    \/ lastOp.name = "new" /\ \E o \in InitOutcomes : InitEngine(o)
    \/ initCalled /\ Start
    \/ \E id \in rafQueue : Frame(id)
    \/ initCalled /\ Len(particles) < MaxParticles /\ AddParticle(ShortLived)
    \/ /\ initCalled /\ Len(particles) < MaxParticles
       /\ TriggerBurst([x |-> 50, y |-> 50, color |-> <<100, 0, 50>>], <<40>>)
    \/ initCalled /\ AddGlitch(30, 100)
    \/ initCalled /\ AddDistortion(90, 100)
    \/ initCalled /\ \E s \in SettingsUpdates : UpdateSettings(s)
    \/ initCalled /\ Len(particles) < MaxParticles /\ StartParticles(40)
    \/ initCalled /\ TriggerTransition

SpecFailure == InitFail /\ [][NextFailure]_vars

\* init() has run and left no program: it failed.  (Under SpecFailure the
\* engine is constructed enabled, so init() never takes its disabled exit.)
InitFailed == initCalled /\ program = Null

\* C23: an init() that fails leaves settings.enabled false; and on an engine
\* whose init() failed and that is disabled, start, addParticle,
\* triggerBurst, addGlitch and addDistortion change nothing and issue no
\* call.
C23_FailedInitDisables ==
    [][/\ (lastOp'.name = "init" /\ program' = Null) => ~settings'.enabled
       /\ (/\ InitFailed /\ ~settings.enabled
           /\ lastOp'.name \in {"start", "addParticle", "triggerBurst",
                                "addGlitch", "addDistortion"})
             => /\ UNCHANGED <<settings, canvas, particleCanvas, gl,
                               particleGl, program, uniforms, particles,
                               time, isAnimating, rafId, lastTime, gpu,
                               timers, rafQueue>>
                /\ glCalls' = <<>>
                /\ ctxCalls' = <<>>
      ]_vars

\* init() failed for want of a 2D context or a shader, and a burst was then
\* asked of the disabled engine.
C23_Witness ==
    /\ InitFailed /\ ~settings.enabled
    /\ gl # Null
    /\ lastOp.name = "triggerBurst"

\* C24: once init() has failed, settings.enabled stays false and the render
\* loop never animates, whatever is called afterwards.
C24_FailureIsPermanent ==
    InitFailed => (~settings.enabled /\ ~isAnimating)

-----------------------------------------------------------------------------
(* updateSettings and the keys of the settings *)

\* The keys the engine reads from its settings.
RecognizedKeys ==
    {"enabled", "intensity", "aberration", "flicker", "particleDensity"}

\* C25: updateSettings adds no key to the settings: the engine constructed
\* with the five recognized keys has exactly those five afterwards.
C25_UpdateAddsNoKey ==
    [][lastOp'.name = "updateSettings"
         => (DOMAIN settings = RecognizedKeys
               => DOMAIN settings' = RecognizedKeys)]_vars

-----------------------------------------------------------------------------
(* The range of aberration and flicker *)

\* C26: aberration and flicker stay within [0, 1] under glitch pulses of any
\* amount and updates within range.
C26_PulsesWithinRange ==
    /\ 0 <= settings.aberration /\ settings.aberration <= One
    /\ 0 <= settings.flicker /\ settings.flicker <= One

-----------------------------------------------------------------------------
(* The steps of one tick *)

\* This step ran the body of animate: it is start() or a frame callback, and
\* it requested the next frame.
TickStep == lastOp'.name \in {"start", "frame"} /\ nextRafId' # nextRafId

\* The calls of the GPU part of a tick in the order of the claim: the clear,
\* the uploads, the draw.
TickGlOrder(calls) ==
    /\ Len(calls) = 8
    /\ calls[1] = "clear"
    /\ \A i \in 2..7 : calls[i] \notin {"clear", "drawArrays"}
    /\ calls[8] = "drawArrays"

\* C27 as stated: every tick of the running loop uploads the simulation time
\* it has just advanced, between a clear and a draw, and runs the particle
\* step whenever effects are enabled.
C27_TickDrawsAndPaints ==
    [][TickStep =>
         /\ TickGlOrder(glCalls')
         /\ gpu'.time = time'
         /\ settings.enabled => ctxCalls' # <<>>
      ]_vars

\* C27, amended: a tick on an engine that has its WebGL context and program
\* clears, uploads the uniforms with the simulation time it has just
\* advanced, draws, and runs the particle step exactly when effects are
\* enabled, the background fill first; a tick on an engine without context
\* or program only advances the simulation time: no GPU call, no particle
\* step.
C27_ReadyTickOrder ==
    [][TickStep =>
         IF gl # Null /\ program # Null
         THEN /\ TickGlOrder(glCalls')
              /\ gpu'.time = time'
              /\ settings.enabled <=> ctxCalls' # <<>>
              /\ settings.enabled => ctxCalls'[1] = FillRect
              /\ ~settings.enabled => particles' = particles
         ELSE /\ glCalls' = <<>>
              /\ ctxCalls' = <<>>
              /\ gpu' = gpu
              /\ particles' = particles
      ]_vars

\* A frame callback on a ready engine with effects enabled: time has
\* advanced, the frame was drawn with it and a particle was painted.
C27_Witness ==
    /\ lastOp.name = "frame"
    /\ program # Null /\ settings.enabled
    /\ time > 0 /\ gpu.time = time
    /\ TickGlOrder(glCalls)
    /\ Len(ctxCalls) > 1

-----------------------------------------------------------------------------
(* Simulation time *)

\* The draw calls among the WebGL calls of a step.
Draws(calls) == {i \in 1..Len(calls) : calls[i] = "drawArrays"}

-----------------------------------------------------------------------------
(* The position of a new particle *)

\* C29: addParticle with normalized position (x, y) pushes a particle at
\* pixel position (x * width, y * height) of the particle canvas, the
\* edges x = 0 and y = 0 included.
C29_SpawnAtScaledPosition ==
    [][(lastOp'.name = "addParticle" /\ Len(particles') = Len(particles) + 1)
         => /\ particles'[Len(particles')].x
                  = (lastOp'.a * particleCanvas.width * 1000) \div One
            /\ particles'[Len(particles')].y
                  = (lastOp'.b * particleCanvas.height * 1000) \div One
      ]_vars

-----------------------------------------------------------------------------
(* The directions of a burst *)

\* Cross and dot product of the velocities of two particles (or of a
\* velocity and a direction), in millionths.
Cross(p, q) == p.vx * q.vy - p.vy * q.vx
Dot(p, q) == p.vx * q.vx + p.vy * q.vy

Abs(v) == IF v < 0 THEN 0 - v ELSE v

\* The unit vector at angle a (tenths of a degree), in thousandths.
UnitAt(a) == [vx |-> CosMilli(a), vy |-> SinMilli(a)]

\* C30: the particles one triggerBurst pushes are, in order, particles 0,
\* 1, ... of its count; the velocity of the i-th points along the angle
\* 2 pi i / count (its cross product with that direction is zero up to the
\* rounding of the two components, its dot product positive), and no two of
\* them point the same way.
C30_BurstEvenlySpaced ==
    [][lastOp'.name = "triggerBurst" =>
         LET n == Len(particles)
             m == Len(particles') - n
             count == (BurstFactor * settings.particleDensity) \div One
         IN  /\ m <= count
             /\ \A i \in 0..(m - 1) :
                   LET p == particles'[n + i + 1]
                       u == UnitAt((3600 * i) \div count)
                   IN  Abs(Cross(p, u)) <= 2000 /\ Dot(p, u) > 0
             /\ \A i \in 0..(m - 1), j \in 0..(m - 1) :
                   i < j =>
                     LET p == particles'[n + i + 1]
                         q == particles'[n + j + 1]
                     IN  Dot(p, q) <= 0 \/ Abs(Cross(p, q)) > 20000
      ]_vars

\* A burst at particle density 1.0 on an empty field: all fifty directions.
C30_Witness ==
    /\ lastOp.name = "triggerBurst"
    /\ settings.enabled
    /\ settings.particleDensity = One
    /\ Len(particles) = BurstFactor

-----------------------------------------------------------------------------
(* Overlapping transitions *)

TransitionTimers == {k \in 1..Len(timers) : timers[k].kind = "transition"}

\* C31: once the 1000 ms timers of all the transitions called have fired,
\* the intensity setting is what it was before the first of them.
C31_IntensityRestored ==
    (transitions # <<>> /\ TransitionTimers = {})
        => settings.intensity = transitions[1].intensity

-----------------------------------------------------------------------------
(* An update during a glitch pulse *)

\* C32: when updateSettings writes aberration and flicker while a glitch
\* pulse is in flight and that pulse's timer fires next, aberration and
\* flicker are still what the update wrote.
C32_UpdateSurvivesPulse ==
    [][(/\ lastOp.name = "updateSettings"
        /\ lastOp.a >= 0 /\ lastOp.b >= 0
        /\ lastOp'.name = "timer:glitch")
          => /\ settings'.aberration = lastOp.a
             /\ settings'.flicker = lastOp.b
      ]_vars

-----------------------------------------------------------------------------
(* Pending frame callbacks *)

\* C33: at most one frame callback is pending, it is the one this.rafId
\* names, and one is pending only while the loop is animating; so a start()
\* after a stop() finds no callback of the earlier loop left.
C33_OnePendingFrame ==
    /\ Cardinality(rafQueue) <= 1
    /\ rafQueue # {} => (isAnimating /\ rafQueue = {rafId})
    /\ isAnimating => rafQueue # {}

\* The loop was started, stopped and started again: the second start() ran
\* its own tick on the ready engine and its callback is the only one
\* pending.
C33_Witness ==
    /\ lastOp.name = "start"
    /\ glCalls # <<>>
    /\ nextRafId = 3
    /\ rafQueue = {2}

-----------------------------------------------------------------------------
(* Calls on a disabled engine *)

\* C34: while settings.enabled is false, addParticle, addDistortion,
\* addGlitch, triggerBurst and startParticles leave the settings, the
\* uniforms, the particles and the timers as they were and issue no call;
\* triggerTransition registers its callback timer, due in 500 ms, after
\* the timers already pending, and leaves the rest as it was.
C34_DisabledCallsInert ==
    [][~settings.enabled =>
         /\ lastOp'.name \in {"addParticle", "addDistortion", "addGlitch",
                              "triggerBurst", "startParticles"}
               => /\ UNCHANGED <<settings, gpu, particles, timers>>
                  /\ glCalls' = <<>> /\ ctxCalls' = <<>>
         /\ lastOp'.name = "triggerTransition"
               => /\ UNCHANGED <<settings, gpu, particles>>
                  /\ Len(timers') = Len(timers) + 1
                  /\ SubSeq(timers', 1, Len(timers)) = timers
                  /\ timers'[Len(timers')].kind = "callback"
                  /\ timers'[Len(timers')].due = now + DisabledCallbackMs
                  /\ glCalls' = <<>> /\ ctxCalls' = <<>>
      ]_vars

\* Effects were switched off on a ready engine and a transition was asked
\* of it: its callback timer is the last one registered.
C34_Witness ==
    /\ ~settings.enabled
    /\ uniforms
    /\ lastOp.name = "triggerTransition"
    /\ timers # <<>>
    /\ timers[Len(timers)].kind = "callback"

-----------------------------------------------------------------------------
(* The particles of a disposed engine *)

\* C35: after dispose() the particle array stays empty, whatever timers
\* registered before the dispose fire afterwards.
C35_DisposedStaysEmpty == disposed => particles = <<>>

-----------------------------------------------------------------------------
(* When particles age *)

\* The particles of ps are all still there in qs, unchanged and in place.
Kept(ps, qs) == Len(qs) >= Len(ps) /\ SubSeq(qs, 1, Len(ps)) = ps

\* C36: a step that changes or removes a particle is dispose() or a run of
\* render() on an engine that has its WebGL context and program: from
\* start(), from a frame callback of the animating loop, or called
\* directly.  Every other step, and every step while the context or the
\* program is missing, keeps the particles there are.
C36_AgingOnlyInTicks ==
    [][\/ Kept(particles, particles')
       \/ lastOp'.name = "dispose"
       \/ /\ lastOp'.name \in {"start", "frame", "render"}
          /\ gl # Null /\ program # Null
          /\ lastOp'.name = "frame" => isAnimating
      ]_vars

\* A particle that aged one tick while the loop ran is as it was after the
\* loop was stopped and the clock moved on.
C36_Witness ==
    /\ ~isAnimating
    /\ nextRafId > 1
    /\ lastOp.name = "clock"
    /\ Len(particles) = 1
    /\ particles[1].life = ShortLived.life - LifeDecay

-----------------------------------------------------------------------------
(* Effects switched off while the loop runs *)

\* C37: an updateSettings call leaves the animating loop animating with its
\* frame callback pending; and a frame callback of the animating loop that
\* finds effects disabled keeps the loop going, draws on the WebGL canvas
\* of a ready engine as in any tick, and neither changes a particle nor
\* paints on the particle canvas.
C37_DisabledLoopDrawsOnly ==
    [][/\ (lastOp'.name = "updateSettings" /\ isAnimating)
            => (isAnimating' /\ rafQueue' = rafQueue /\ rafQueue # {})
       /\ (lastOp'.name = "frame" /\ isAnimating /\ ~settings.enabled)
            => /\ isAnimating' /\ rafQueue' # {}
               /\ particles' = particles
               /\ ctxCalls' = <<>>
               /\ (gl # Null /\ program # Null) => TickGlOrder(glCalls')
      ]_vars

\* The loop of a ready engine holding a particle ran a frame after effects
\* were switched off: the frame was drawn, the particle was left alone.
C37_Witness ==
    /\ lastOp.name = "frame"
    /\ isAnimating /\ ~settings.enabled
    /\ particles # <<>>
    /\ TickGlOrder(glCalls)
    /\ ctxCalls = <<>>
    /\ rafQueue # {}

-----------------------------------------------------------------------------
(* SpecAmbient: ambient generators alone on a running engine.  The page    *)
(* may call startParticles more than once; each call that finds the loop   *)
(* animating leaves a generator of its own rechecking every 100 ms.        *)

AmbientHorizon == 300

AmbientDensities == {0, 2, 3}

InitAmbient ==
    \E d \in AmbientDensities :
        Constructed([enabled |-> TRUE, particleDensity |-> d],
                    DefaultCanvas, DefaultCanvas)

NextAmbient ==
    \/ now = 0 /\ InitEngine("ok")
    \/ Start
    \/ \E id \in rafQueue : Frame(id)
    \/ StartParticles(40)
    \/ FireTimer(40, <<40>>)
    \/ \E t \in ClockTargets : t <= AmbientHorizon /\ AdvanceTime(t)

SpecAmbient == InitAmbient /\ [][NextAmbient]_vars

AmbientTimers == {k \in 1..Len(timers) : timers[k].kind = "ambient"}

\* ceil(100 * particleDensity)
AmbientCeiling(st) == (AmbientFactor * st.particleDensity + One - 1) \div One

-----------------------------------------------------------------------------
(* The bursts of a transition and its callback *)

\* The index of the first burst due later than the final timer.
FirstLateBurst == TransitionMs \div BurstStaggerMs + 1

\* C39: when the final timer of an enabled transition invokes the callback,
\* the bursts 0 to 100 of that transition have fired and burst 101 is the
\* next, due 10 ms later; and every burst that fires after the callback,
\* with effects enabled, still pushes its floor(50 * particleDensity)
\* particles (the cap permitting) and, on an engine with its uniforms,
\* starts a distortion pulse of 0.8 with a reset timer of its own.
C39_BurstsOutliveCallback ==
    [][/\ lastOp'.name = "timer:transition"
            => \E k \in 1..Len(timers) :
                  /\ timers[k].kind = "burst"
                  /\ timers[k].id = timers[NextTimer].id
                  /\ timers[k].a = FirstLateBurst
                  /\ timers[k].a < TransitionBursts
                  /\ timers[k].due = now + BurstStaggerMs
       /\ (/\ lastOp'.name = "timer:burst"
           /\ transitions[timers[NextTimer].id].calls >= 1
           /\ settings.enabled)
            => /\ timers[NextTimer].a >= FirstLateBurst
               /\ Len(particles')
                    = Min(ParticleCap + 1,
                          Len(particles) + (BurstFactor * settings.particleDensity) \div One)
               /\ uniforms
                    => /\ gpu'.distortion = BurstDistortion
                       /\ Cardinality(DistortionTimers')
                            = Cardinality(DistortionTimers) + 1
      ]_vars

\* A burst of the one transition called has fired after its callback, on a
\* ready engine with effects enabled: particles and a distortion pulse.
C39_Witness ==
    /\ lastOp.name = "timer:burst"
    /\ Len(transitions) = 1
    /\ transitions[1].calls = 1
    /\ now > transitions[1].doneAt
    /\ settings.enabled /\ uniforms
    /\ gpu.distortion = BurstDistortion
    /\ Len(particles) > FirstLateBurst

=============================================================================
